---- MODULE Spec2Model ----
(***************************************************************************)
(* The contract metadata database (AnalysisDatabase, vm/analysis/          *)
(* analysis_db.rs) over its rollback wrapper, and the epoch resolution     *)
(* exercised by clarity_vm/tests/epoch_switch.rs.                          *)
(*                                                                         *)
(* RollbackWrapper, ContractAnalysis's (de)serialization and               *)
(* get_stacks_epoch live outside the two source files; they are modelled   *)
(* from the specification's sections 4.1, 4.3 and 6.                       *)
(***************************************************************************)
EXTENDS Integers, Sequences, FiniteSets, TLC

VARIABLES
    store,      \* AnalysisDatabase.store: the RollbackWrapper and its backing store
    calls,      \* activations of execute whose unit of work is still running
    ret,        \* the last handler that returned, its arguments and its result
    epochs,     \* the epoch table SortitionDB::connect stored
    tip,        \* block height of the canonical burn chain tip
    handle,     \* the handle open on the sortition db: "none", "conn" or "tx"
    conn_res,   \* the last get_stacks_epoch through the SortitionHandleConn
    tx_res      \* the last get_stacks_epoch through the SortitionHandleTx

dbVars == <<store, calls, ret>>
epochVars == <<epochs, tip, handle, conn_res, tx_res>>
vars == <<store, calls, ret, epochs, tip, handle, conn_res, tx_res>>

\* ---------------------------------------------------------------- bounds

\* Frames open at once (nesting is unbounded in the code).
MaxDepth == 2
\* Activations of execute running at once.
MaxCalls == 2
\* Heights 0..MaxHeight are asked for, and the largest u32.
MaxHeight == 14

\* ---------------------------------------------------------------- values

Ok(v) == <<"Ok", v>>
Err(e) == <<"Err", e>>
Some(x) == <<"Some", x>>
None == <<"None">>
IsOk(r) == r[1] = "Ok"
IsErr(r) == r[1] = "Err"
IsSome(o) == o[1] = "Some"

\* QualifiedContractIdentifier values the handlers are called with.
Ids == {"c1", "c2"}
\* Function, trait and map names the projections are asked for.
Names == {"f", "m"}
\* The order BTreeMap keys are written in.
NameOrder == <<"f", "m">>

\* CheckErrors raised by the database.
ContractAlreadyExists(id) == <<"ContractAlreadyExists", id>>
NoSuchContract(id) == <<"NoSuchContract", id>>
NoSuchMap(name) == <<"NoSuchMap", name>>

\* A map with no entry (an empty BTreeMap).
EmptyMap == [k \in {} |-> None]

\* A ContractAnalysis: the facets the database serves.
Analysis(pub, ro, traits, impl, maps) ==
    [public_function_types |-> pub,
     read_only_function_types |-> ro,
     defined_traits |-> traits,
     implemented_traits |-> impl,
     map_types |-> maps]

\* The analyses the callers insert.
Analyses ==
    { Analysis([k \in {"f", "m"} |-> "fn(int)->(response bool int)"], EmptyMap, EmptyMap, {},
               [k \in {"m"} |-> <<"int", "bool">>]),
      Analysis(EmptyMap, [k \in {"f"} |-> "fn(uint)->uint"],
               [k \in {"m"} |-> [j \in {"f"} |-> "sig(uint)->uint"]], {"c1.m", "c2.f"},
               [k \in {"f", "m"} |-> <<"uint", "uint">>]) }

\* ------------------------------------------------- ContractAnalysis facets

get_public_function_type(contract, name) ==
    IF name \in DOMAIN contract.public_function_types
    THEN Some(contract.public_function_types[name]) ELSE None

get_read_only_function_type(contract, name) ==
    IF name \in DOMAIN contract.read_only_function_types
    THEN Some(contract.read_only_function_types[name]) ELSE None

get_defined_trait(contract, name) ==
    IF name \in DOMAIN contract.defined_traits
    THEN Some(contract.defined_traits[name]) ELSE None

get_map_type(contract, name) ==
    IF name \in DOMAIN contract.map_types
    THEN Some(contract.map_types[name]) ELSE None

\* ---------------------------------------------------------- serialization

\* The entries of a map as <<key, value>> pairs in key order.
Entries(map) ==
    LET keys == SelectSeq(NameOrder, LAMBDA k : k \in DOMAIN map)
    IN [i \in 1..Len(keys) |-> <<keys[i], map[keys[i]]>>]

\* The map a sequence of <<key, value>> pairs spells.
FromEntries(es) ==
    [k \in {es[i][1] : i \in 1..Len(es)} |->
        (CHOOSE i \in 1..Len(es) : es[i][1] = k) ]

MapOfEntries(es) ==
    LET at == FromEntries(es) IN [k \in DOMAIN at |-> es[at[k]][2]]

\* serialize leaving the implemented traits out.
serialize_SkipImplemented(contract) ==
    << <<"public_function_types", Entries(contract.public_function_types)>>,
       <<"read_only_function_types", Entries(contract.read_only_function_types)>>,
       <<"defined_traits",
         LET es == Entries(contract.defined_traits)
         IN [i \in 1..Len(es) |-> <<es[i][1], Entries(es[i][2])>>]>>,
       <<"implemented_traits", {}>>,
       <<"map_types", Entries(contract.map_types)>> >>

\* ClaritySerializable::serialize: one tagged field per facet.
serialize(contract) ==
    << <<"public_function_types", Entries(contract.public_function_types)>>,
       <<"read_only_function_types", Entries(contract.read_only_function_types)>>,
       <<"defined_traits",
         LET es == Entries(contract.defined_traits)
         IN [i \in 1..Len(es) |-> <<es[i][1], Entries(es[i][2])>>]>>,
       <<"implemented_traits", contract.implemented_traits>>,
       <<"map_types", Entries(contract.map_types)>> >>

Field(bytes, tag) == bytes[CHOOSE i \in 1..Len(bytes) : bytes[i][1] = tag][2]

\* ClarityDeserializable::deserialize.
deserialize(bytes) ==
    Analysis(MapOfEntries(Field(bytes, "public_function_types")),
             MapOfEntries(Field(bytes, "read_only_function_types")),
             LET es == Field(bytes, "defined_traits")
             IN MapOfEntries([i \in 1..Len(es) |-> <<es[i][1], MapOfEntries(es[i][2])>>]),
             Field(bytes, "implemented_traits"),
             MapOfEntries(Field(bytes, "map_types")))

\* -------------------------------------------------------- RollbackWrapper

\* A map with no entry of any identifier.
NoEntries == [id \in {} |-> <<>>]

\* The first map's entries over the second's.
Merge(over, under) ==
    [id \in DOMAIN over \cup DOMAIN under |->
        IF id \in DOMAIN over THEN over[id] ELSE under[id]]

Front(s) == SubSeq(s, 1, Len(s) - 1)
Top(s) == s[Len(s)]

\* The frames' writes, the upper over the lower, over the backing store.
RECURSIVE Visible(_, _)
Visible(stack, durable) ==
    IF Len(stack) = 0 THEN durable
    ELSE Merge(Top(stack).writes, Visible(Front(stack), durable))

\* A frame: its writes, and the entries that were visible when it was opened.
Frame(writes, seen) == [writes |-> writes, seen |-> seen]

\* RollbackWrapper::new over a backing store.
NewStore(durable) == [stack |-> <<>>, durable |-> durable, fault |-> FALSE, log |-> <<>>]

\* The frame calls of one handler are logged from an empty log.
Entered(st) == [st EXCEPT !.log = <<>>]

store_nest(st) ==
    [st EXCEPT !.stack = Append(@, Frame(NoEntries, Visible(st.stack, st.durable))),
               !.log = Append(@, "nest")]

store_commit(st) ==
    IF Len(st.stack) = 0
    THEN [st EXCEPT !.fault = TRUE, !.log = Append(@, "commit")]
    ELSE IF Len(st.stack) = 1
    THEN [st EXCEPT !.stack = <<>>,
                    !.durable = Merge(Top(st.stack).writes, @),
                    !.log = Append(@, "commit")]
    ELSE [st EXCEPT !.stack = Front(@),
                    !.stack[Len(st.stack) - 1].writes = Merge(Top(st.stack).writes, @),
                    !.log = Append(@, "commit")]

store_rollback(st) ==
    IF Len(st.stack) = 0
    THEN [st EXCEPT !.fault = TRUE, !.log = Append(@, "rollback")]
    ELSE [st EXCEPT !.stack = Front(@), !.log = Append(@, "rollback")]

\* A failure of the backing store's read other than its not-found error.
ReadFailure == Err("ReadFailure")

\* What the backing store answers for an identifier it holds no entry of:
\* Ok(None), its not-found error, or a failure of the read.
Misses == {Ok(None), Err("NoSuchContract"), ReadFailure}

get_metadata(st, id, miss) ==
    LET seen == Visible(st.stack, st.durable)
    IN IF id \in DOMAIN seen THEN Ok(Some(seen[id])) ELSE miss

has_metadata_entry(st, id) ==
    id \in DOMAIN Visible(st.stack, st.durable)

\* The answers the backing store may give when a handler reads the entry of
\* an identifier: it is asked, and may miss, only when no entry is visible.
MissesFor(st, id) ==
    IF has_metadata_entry(st, id) THEN {Ok(None)} ELSE Misses

insert_metadata(st, id, bytes) ==
    [st EXCEPT !.stack[Len(st.stack)].writes = Merge([k \in {id} |-> bytes], @),
               !.log = Append(@, "insert_metadata")]

\* ------------------------------------------------------- AnalysisDatabase

\* What a handler that panicked hands back.
Panic == <<"Panic">>

\* begin nesting two frames.
begin_Twice(st) == store_nest(store_nest(st))

\* The last handler that returned: its name, arguments and result; for
\* execute, what its unit of work had done; for a handler that discarded a
\* frame, the writes that went with it, and for insert_contract the write of
\* its identifier that the handler before it had discarded.
NoRet == [op |-> "none", args |-> <<>>, res |-> <<>>, act |-> <<>>, undone |-> NoEntries]
Returned(op, args, res) ==
    [op |-> op, args |-> args, res |-> res, act |-> <<>>, undone |-> NoEntries]

\* The writes of the top frame, which a discard drops.
Dropped(st) == IF Len(st.stack) = 0 THEN NoEntries ELSE Top(st.stack).writes

\* The write of id that the last handler discarded, if it did.
Redone(last, id) ==
    IF last.op \in {"roll_back", "execute"} /\ id \in DOMAIN last.undone
    THEN [k \in {id} |-> last.undone[id]]
    ELSE NoEntries

begin(st) == store_nest(st)

\* commit returning quietly when no frame is open.
commit_Lenient(st) == IF Len(st.stack) = 0 THEN st ELSE store_commit(st)

commit(st) == store_commit(st)

\* roll_back committing the frame.
roll_back_Commits(st) == store_commit(st)

\* roll_back discarding two frames.
roll_back_Twice(st) == store_rollback(store_rollback(st))

roll_back(st) == store_rollback(st)

has_contract(st, id) == has_metadata_entry(st, id)

\* load_contract reading the backing store and not the frames above it.
load_contract_PastFrames(st, id, miss) ==
    LET got == get_metadata(NewStore(st.durable), id, miss)
    IN IF IsErr(got) THEN None
       ELSE IF IsSome(got[2]) THEN Some(deserialize(got[2][2]))
       ELSE None

load_contract(st, id, miss) ==
    LET got == get_metadata(st, id, miss)
    IN IF IsErr(got) THEN None
       ELSE IF IsSome(got[2]) THEN Some(deserialize(got[2][2]))
       ELSE None

\* ------------------------------------------------------ epoch resolution

\* A u64 as three base-10^9 digits, the most significant first.
Wide(n) == <<0, 0, n>>
STACKS_EPOCH_MAX == <<9, 223372036, 854775807>>
U32_MAX == <<0, 4, 294967295>>

WideLt(a, b) ==
    \/ a[1] < b[1]
    \/ a[1] = b[1] /\ a[2] < b[2]
    \/ a[1] = b[1] /\ a[2] = b[2] /\ a[3] < b[3]
WideLe(a, b) == a = b \/ WideLt(a, b)

StacksEpoch(epoch_id, start_height, end_height, network_epoch) ==
    [epoch_id |-> epoch_id,
     start_height |-> start_height,
     end_height |-> end_height,
     block_limit |-> "ExecutionCost::max_value()",
     network_epoch |-> network_epoch]

\* The table test_vm_epoch_switch hands to SortitionDB::connect.
TestEpochs ==
    << StacksEpoch("Epoch10", Wide(0), Wide(8), "PEER_VERSION_EPOCH_1_0"),
       StacksEpoch("Epoch20", Wide(8), Wide(12), "PEER_VERSION_EPOCH_2_0"),
       StacksEpoch("Epoch2_05", Wide(12), STACKS_EPOCH_MAX, "PEER_VERSION_EPOCH_2_05") >>

\* first_block_height of the connect call, and the snapshots the test appends.
FirstBlockHeight == 3
Snapshots == 20

\* The u32 heights asked for.
Heights == {Wide(n) : n \in 0..MaxHeight} \cup {U32_MAX}

\* The resolution with the interval closed at its end.
get_stacks_epoch_EndInclusive(table, height) ==
    LET hits == SelectSeq(table, LAMBDA e :
                    WideLe(e.start_height, height) /\ WideLe(height, e.end_height))
    IN IF Len(hits) = 0 THEN None ELSE Some(hits[1])

\* The resolution with the interval open at its start.
get_stacks_epoch_StartExclusive(table, height) ==
    LET hits == SelectSeq(table, LAMBDA e :
                    WideLt(e.start_height, height) /\ WideLt(height, e.end_height))
    IN IF Len(hits) = 0 THEN None ELSE Some(hits[1])

\* The first record of the table whose interval holds the height.
get_stacks_epoch(table, height) ==
    LET hits == SelectSeq(table, LAMBDA e :
                    WideLe(e.start_height, height) /\ WideLt(height, e.end_height))
    IN IF Len(hits) = 0 THEN None ELSE Some(hits[1])

\* BurnStateDB::get_stacks_epoch of the two handles.
ConnResolve(height) == get_stacks_epoch(epochs, height)
\* The transaction resolving the height of the block after the one asked for.
TxResolve_NextBlock(height) ==
    get_stacks_epoch(epochs, IF height[1] = 0 /\ height[2] = 0 THEN Wide(height[3] + 1)
                             ELSE height)
TxResolve(height) == get_stacks_epoch(epochs, height)

\* No height has been asked for yet.
NoQuery == [height |-> None, epoch |-> None]

Init ==
    /\ store = NewStore(NoEntries)
    /\ calls = <<>>
    /\ ret = NoRet
    /\ epochs = TestEpochs
    /\ tip = FirstBlockHeight
    /\ handle = "none"
    /\ conn_res = NoQuery
    /\ tx_res = NoQuery

\* test_append_snapshot: one more block on the canonical chain.
AppendSnapshot ==
    /\ handle = "none"
    /\ tip < FirstBlockHeight + Snapshots
    /\ tip' = tip + 1
    /\ UNCHANGED <<epochs, handle, conn_res, tx_res>>
    /\ UNCHANGED dbVars

\* db.index_conn()
IndexConn ==
    /\ handle = "none"
    /\ handle' = "conn"
    /\ UNCHANGED <<epochs, tip, conn_res, tx_res>>
    /\ UNCHANGED dbVars

\* db.tx_handle_begin(&tip.sortition_id)
TxHandleBegin ==
    /\ handle = "none"
    /\ handle' = "tx"
    /\ UNCHANGED <<epochs, tip, conn_res, tx_res>>
    /\ UNCHANGED dbVars

\* The handle goes out of scope; a transaction that was not committed is
\* rolled back.
DropHandle ==
    /\ handle # "none"
    /\ handle' = "none"
    /\ UNCHANGED <<epochs, tip, conn_res, tx_res>>
    /\ UNCHANGED dbVars

\* The query appending a snapshot to the chain.
ConnGetStacksEpoch_Appends(height) ==
    /\ handle = "conn"
    /\ conn_res' = [height |-> height, epoch |-> ConnResolve(height)]
    /\ tip' = tip + 1
    /\ UNCHANGED <<epochs, handle, tx_res>>
    /\ UNCHANGED dbVars

ConnGetStacksEpoch(height) ==
    /\ handle = "conn"
    /\ conn_res' = [height |-> height, epoch |-> ConnResolve(height)]
    /\ UNCHANGED <<epochs, tip, handle, tx_res>>
    /\ UNCHANGED dbVars

TxGetStacksEpoch(height) ==
    /\ handle = "tx"
    /\ tx_res' = [height |-> height, epoch |-> TxResolve(height)]
    /\ UNCHANGED <<epochs, tip, handle, conn_res>>
    /\ UNCHANGED dbVars

EpochNext ==
    \/ AppendSnapshot
    \/ IndexConn
    \/ TxHandleBegin
    \/ DropHandle
    \/ \E height \in Heights : ConnGetStacksEpoch(height)
    \/ \E height \in Heights : TxGetStacksEpoch(height)

EpochSpec == Init /\ [][EpochNext]_vars

\* ---- epoch tables other than the test's ----

\* The heights at which the tables switch epochs, in order.
Cuts == <<Wide(1), Wide(8), Wide(12), U32_MAX>>
EpochIds == <<"Epoch10", "Epoch20", "Epoch2_05">>
NetworkEpochs ==
    <<"PEER_VERSION_EPOCH_1_0", "PEER_VERSION_EPOCH_2_0", "PEER_VERSION_EPOCH_2_05">>

\* The table whose epochs lie between the consecutive heights of bounds.
TableOf(bounds) ==
    [i \in 1..(Len(bounds) - 1) |->
        StacksEpoch(EpochIds[i], bounds[i], bounds[i + 1], NetworkEpochs[i])]

\* The tables of one to three epochs that start at height 0, switch at
\* heights of Cuts and end at STACKS_EPOCH_MAX: sorted, contiguous and
\* non-overlapping, as SortitionDB::connect requires.
ValidTables ==
    {TableOf(<<Wide(0)>> \o SelectSeq(Cuts, LAMBDA c : c \in S) \o <<STACKS_EPOCH_MAX>>) :
        S \in {T \in SUBSET {Cuts[i] : i \in 1..Len(Cuts)} : Cardinality(T) <= 2}}

\* SortitionDB::connect with any of the tables.
TableInit ==
    /\ store = NewStore(NoEntries)
    /\ calls = <<>>
    /\ ret = NoRet
    /\ epochs \in ValidTables
    /\ tip = FirstBlockHeight
    /\ handle = "none"
    /\ conn_res = NoQuery
    /\ tx_res = NoQuery

\* The handles and their queries over a chain that is not extended.
TableNext ==
    \/ IndexConn
    \/ TxHandleBegin
    \/ DropHandle
    \/ \E height \in Heights : ConnGetStacksEpoch(height)
    \/ \E height \in Heights : TxGetStacksEpoch(height)

TableSpec == TableInit /\ [][TableNext]_vars

\* A handler runs only while the process has not panicked. The frame depth
\* is capped at MaxDepth and the running executes at MaxCalls; insert_contract
\* is called with a frame open, as the database's callers do.
Running == ~store.fault

\* An activation of execute and what its unit of work has done so far: the
\* frames that were open when execute was called, the identifiers the unit of
\* work inserted itself, those inserted by the executes it ran to success,
\* and whether it called begin, commit or roll_back itself (its inserts and
\* the frames it was called with are then no longer followed).
Activation(depth) == [depth |-> depth, inserted |-> {}, folded |-> {}, raw |-> FALSE]
RawActivation == [depth |-> 0, inserted |-> {}, folded |-> {}, raw |-> TRUE]

\* A unit of work called begin, commit or roll_back itself: the frames no
\* longer belong to the activations that were running.
MarkRaw(cs) ==
    [i \in 1..Len(cs) |-> RawActivation]

Begin ==
    /\ Running
    /\ Len(store.stack) < MaxDepth
    /\ store' = begin(Entered(store))
    /\ calls' = MarkRaw(calls)
    /\ ret' = Returned("begin", <<>>, <<>>)
    /\ UNCHANGED epochVars

Commit ==
    /\ Running
    /\ store' = commit(Entered(store))
    /\ calls' = MarkRaw(calls)
    /\ ret' = Returned("commit", <<>>, IF store'.fault THEN Panic ELSE <<>>)
    /\ UNCHANGED epochVars

RollBack ==
    /\ Running
    /\ store' = roll_back(Entered(store))
    /\ calls' = MarkRaw(calls)
    /\ ret' = [Returned("roll_back", <<>>, IF store'.fault THEN Panic ELSE <<>>)
                  EXCEPT !.undone = Dropped(store)]
    /\ UNCHANGED epochVars

\* ---- execute(f): begin, the unit of work f, then roll_back or commit ----

\* What the unit of work f hands back to execute.
FRets == {Ok("v1"), Ok("v2"), Err("e1"), Err("e2")}

\* execute committing whatever f returned.
ExecuteSettle_AlwaysCommit(st, r) == commit(st)

\* execute leaving its frame open when f failed.
ExecuteSettle_NoRollback(st, r) ==
    IF IsErr(r) THEN st ELSE commit(st)

\* execute's own frame call once f has returned r.
ExecuteSettle(st, r) ==
    IF IsErr(r) THEN roll_back(st) ELSE commit(st)

\* execute handing back an error of its own.
ExecuteResult_OwnError(r) ==
    IF IsErr(r) THEN Err("e1") ELSE Ok(r[2])

\* What execute returns once f has returned r.
ExecuteResult(r) ==
    IF IsErr(r) THEN Err(r[2]) ELSE Ok(r[2])

\* The caller's activation once an inner execute has returned r.
Resume(cs, act, r) ==
    IF Len(cs) = 0 THEN cs
    ELSE IF act.raw \/ Top(cs).raw THEN MarkRaw(cs)
    ELSE IF IsOk(r)
    THEN [cs EXCEPT ![Len(cs)].folded = @ \cup act.inserted \cup act.folded]
    ELSE cs

ExecuteCall ==
    /\ Running
    /\ Len(store.stack) < MaxDepth
    /\ Len(calls) < MaxCalls
    /\ store' = begin(Entered(store))
    /\ calls' = Append(calls, Activation(Len(store.stack)))
    /\ ret' = Returned("execute.begin", <<>>, <<>>)
    /\ UNCHANGED epochVars

ExecuteReturn(r) ==
    /\ Running
    /\ Len(calls) > 0
    /\ store' = ExecuteSettle(Entered(store), r)
    /\ IF store'.fault
       THEN /\ calls' = calls
            /\ ret' = Returned("execute", <<r>>, Panic)
       ELSE /\ calls' = Resume(Front(calls), Top(calls), r)
            /\ ret' = [op |-> "execute", args |-> <<r>>, res |-> ExecuteResult(r),
                       act |-> Top(calls),
                       undone |-> IF IsErr(r) THEN Dropped(store) ELSE NoEntries]
    /\ UNCHANGED epochVars

\* ---- reads and the write ----

HasContract(id) ==
    /\ Running
    /\ ret' = Returned("has_contract", <<id>>, has_contract(store, id))
    /\ UNCHANGED <<store, calls>>
    /\ UNCHANGED epochVars

\* load_contract keeping what it read in the top frame.
LoadContract_Caches(id) ==
    /\ Running
    /\ \E res \in {load_contract(store, id, miss) : miss \in MissesFor(store, id)} :
          /\ ret' = Returned("load_contract", <<id>>, res)
          /\ store' = IF IsSome(res) /\ Len(store.stack) > 0
                      THEN insert_metadata(store, id, serialize(res[2]))
                      ELSE store
    /\ UNCHANGED calls
    /\ UNCHANGED epochVars

LoadContract(id) ==
    /\ Running
    /\ \E res \in {load_contract(store, id, miss) : miss \in MissesFor(store, id)} :
          ret' = Returned("load_contract", <<id>>, res)
    /\ UNCHANGED <<store, calls>>
    /\ UNCHANGED epochVars

\* ---- reads through another handle on the same backing store ----

\* The other handle built over the writer's rollback wrapper.
Reader_SharedWrapper(st) == st

\* AnalysisDatabase::new over the backing store: a wrapper with no frame.
Reader(st) == NewStore(st.durable)

ReaderHasContract(id) ==
    /\ Running
    /\ ret' = Returned("reader.has_contract", <<id>>, has_contract(Reader(store), id))
    /\ UNCHANGED <<store, calls>>
    /\ UNCHANGED epochVars

ReaderLoadContract(id) ==
    /\ Running
    /\ \E res \in {load_contract(Reader(store), id, miss) :
                      miss \in MissesFor(Reader(store), id)} :
          ret' = Returned("reader.load_contract", <<id>>, res)
    /\ UNCHANGED <<store, calls>>
    /\ UNCHANGED epochVars

\* The unit of work that is running, if any, inserted id.
MarkInserted(cs, id) ==
    IF Len(cs) = 0 \/ Top(cs).raw THEN cs
    ELSE [cs EXCEPT ![Len(cs)].inserted = @ \cup {id}]

\* insert_contract without its has_metadata_entry check.
InsertContract_Unchecked(id, contract) ==
    /\ Running
    /\ Len(store.stack) > 0
    /\ store' = insert_metadata(Entered(store), id, serialize(contract))
    /\ calls' = MarkInserted(calls, id)
    /\ ret' = Returned("insert_contract", <<id, contract>>, Ok(<<>>))
    /\ UNCHANGED epochVars

\* insert_contract looking for an entry in the top frame alone.
InsertContract_TopFrameOnly(id, contract) ==
    /\ Running
    /\ Len(store.stack) > 0
    /\ IF id \in DOMAIN Top(store.stack).writes
       THEN /\ ret' = Returned("insert_contract", <<id, contract>>,
                               Err(ContractAlreadyExists(id)))
            /\ UNCHANGED <<store, calls>>
       ELSE /\ store' = insert_metadata(Entered(store), id, serialize(contract))
            /\ calls' = MarkInserted(calls, id)
            /\ ret' = [Returned("insert_contract", <<id, contract>>, Ok(<<>>))
                          EXCEPT !.undone = Redone(ret, id)]
    /\ UNCHANGED epochVars

InsertContract(id, contract) ==
    /\ Running
    /\ Len(store.stack) > 0
    /\ IF has_metadata_entry(store, id)
       THEN /\ ret' = Returned("insert_contract", <<id, contract>>,
                               Err(ContractAlreadyExists(id)))
            /\ UNCHANGED <<store, calls>>
       ELSE /\ store' = insert_metadata(Entered(store), id, serialize(contract))
            /\ calls' = MarkInserted(calls, id)
            /\ ret' = [Returned("insert_contract", <<id, contract>>, Ok(<<>>))
                          EXCEPT !.undone = Redone(ret, id)]
    /\ UNCHANGED epochVars

\* ---- projections ----

\* Option::ok_or
ok_or(option, error) == IF IsSome(option) THEN Ok(option[2]) ELSE Err(error)

GetPublicFunctionType(id, name) ==
    /\ Running
    /\ \E contract \in {ok_or(load_contract(store, id, miss), NoSuchContract(id)) :
                           miss \in MissesFor(store, id)} :
          ret' = Returned("get_public_function_type", <<id, name>>,
                          IF IsErr(contract) THEN contract
                          ELSE Ok(get_public_function_type(contract[2], name)))
    /\ UNCHANGED <<store, calls>>
    /\ UNCHANGED epochVars

GetReadOnlyFunctionType(id, name) ==
    /\ Running
    /\ \E contract \in {ok_or(load_contract(store, id, miss), NoSuchContract(id)) :
                           miss \in MissesFor(store, id)} :
          ret' = Returned("get_read_only_function_type", <<id, name>>,
                          IF IsErr(contract) THEN contract
                          ELSE Ok(get_read_only_function_type(contract[2], name)))
    /\ UNCHANGED <<store, calls>>
    /\ UNCHANGED epochVars

\* get_defined_trait failing on a name the analysis does not declare.
GetDefinedTrait_OrError(id, name) ==
    /\ Running
    /\ \E contract \in {ok_or(load_contract(store, id, miss), NoSuchContract(id)) :
                           miss \in MissesFor(store, id)} :
          ret' = Returned("get_defined_trait", <<id, name>>,
                          IF IsErr(contract) THEN contract
                          ELSE ok_or(get_defined_trait(contract[2], name),
                                     NoSuchContract(name)))
    /\ UNCHANGED <<store, calls>>
    /\ UNCHANGED epochVars

GetDefinedTrait(id, name) ==
    /\ Running
    /\ \E contract \in {ok_or(load_contract(store, id, miss), NoSuchContract(id)) :
                           miss \in MissesFor(store, id)} :
          ret' = Returned("get_defined_trait", <<id, name>>,
                          IF IsErr(contract) THEN contract
                          ELSE Ok(get_defined_trait(contract[2], name)))
    /\ UNCHANGED <<store, calls>>
    /\ UNCHANGED epochVars

GetImplementedTraits(id) ==
    /\ Running
    /\ \E contract \in {ok_or(load_contract(store, id, miss), NoSuchContract(id)) :
                           miss \in MissesFor(store, id)} :
          ret' = Returned("get_implemented_traits", <<id>>,
                          IF IsErr(contract) THEN contract
                          ELSE Ok(contract[2].implemented_traits))
    /\ UNCHANGED <<store, calls>>
    /\ UNCHANGED epochVars

\* get_map_type with the error of the other projections.
MapTypeOr_NoSuchContract(contract, name) ==
    ok_or(get_map_type(contract, name), NoSuchContract(name))

\* contract.get_map_type(map_name).ok_or(NoSuchMap)
MapTypeOr(contract, name) ==
    ok_or(get_map_type(contract, name), NoSuchMap(name))

GetMapType(id, name) ==
    /\ Running
    /\ \E contract \in {ok_or(load_contract(store, id, miss), NoSuchContract(id)) :
                           miss \in MissesFor(store, id)} :
          ret' = Returned("get_map_type", <<id, name>>,
                          IF IsErr(contract) THEN contract
                          ELSE MapTypeOr(contract[2], name))
    /\ UNCHANGED <<store, calls>>
    /\ UNCHANGED epochVars

\* The frame calls, execute and the write of the database.
Writes ==
    \/ Begin
    \/ Commit
    \/ RollBack
    \/ ExecuteCall
    \/ \E r \in FRets : ExecuteReturn(r)
    \/ \E id \in Ids, contract \in Analyses : InsertContract(id, contract)

\* The database with has_contract and load_contract through its own handle
\* and through another handle on the same backing store.
Next ==
    \/ Writes
    \/ \E id \in Ids : HasContract(id)
    \/ \E id \in Ids : LoadContract(id)
    \/ \E id \in Ids : ReaderHasContract(id)
    \/ \E id \in Ids : ReaderLoadContract(id)

Spec == Init /\ [][Next]_vars

\* The database with every read of its own handle: has_contract,
\* load_contract and the five projections.
ProjectionNext ==
    \/ Writes
    \/ \E id \in Ids : HasContract(id)
    \/ \E id \in Ids : LoadContract(id)
    \/ \E id \in Ids, name \in Names : GetPublicFunctionType(id, name)
    \/ \E id \in Ids, name \in Names : GetReadOnlyFunctionType(id, name)
    \/ \E id \in Ids, name \in Names : GetDefinedTrait(id, name)
    \/ \E id \in Ids : GetImplementedTraits(id)
    \/ \E id \in Ids, name \in Names : GetMapType(id, name)

ProjectionSpec == Init /\ [][ProjectionNext]_vars

\* ------------------------------------------------------------ properties

\* The entries the handlers see.
VisibleNow == Visible(store.stack, store.durable)

\* C1. Atomicity of scoped execute: once execute has returned, the
\* identifiers its unit of work inserted (and did not have before) are all
\* absent when the unit of work failed, and all present when it succeeded.
C1_Atomicity ==
    (ret.op = "execute" /\ ret.res # Panic /\ ~ret.act.raw) =>
        \A id \in ret.act.inserted :
            has_contract(store, id) <=> IsOk(ret.args[1])

\* A unit of work inserted both identifiers and failed: neither is left.
C1_Witness ==
    /\ ret.op = "execute" /\ ret.res # Panic
    /\ IsErr(ret.args[1])
    /\ ~ret.act.raw
    /\ ret.act.inserted = Ids
    /\ \A id \in Ids : ~has_contract(store, id)

\* C2. Write-once: insert_contract on an identifier that has an entry fails
\* with ContractAlreadyExists and changes nothing; called right after
\* insert_contract(id, A) succeeded, with any B, it leaves load_contract(id)
\* returning A.
C2_WriteOnce ==
    [][(ret'.op = "insert_contract" /\ has_contract(store, ret'.args[1])) =>
        LET id == ret'.args[1]
        IN /\ InsertContract(id, ret'.args[2])
           /\ ret'.res = Err(ContractAlreadyExists(id))
           /\ store' = store
           /\ \A miss \in Misses :
                  load_contract(store', id, miss) = load_contract(store, id, miss)
           /\ (ret.op = "insert_contract" /\ IsOk(ret.res) /\ ret.args[1] = id) =>
                  \A miss \in Misses :
                      load_contract(store', id, miss) = Some(ret.args[2])]_vars

\* A second insert of another analysis was refused and the first is loaded.
C2_Witness ==
    /\ ret.op = "insert_contract"
    /\ ret.res = Err(ContractAlreadyExists(ret.args[1]))
    /\ \E A \in Analyses :
          /\ A # ret.args[2]
          /\ load_contract(store, ret.args[1], Ok(None)) = Some(A)

\* The epoch test_burnstatedb_epoch expects at a height, with the test's
\* boundaries 8 and 12.
ExpectedEpochId(height) ==
    IF WideLt(height, Wide(8)) THEN "Epoch10"
    ELSE IF WideLt(height, Wide(12)) THEN "Epoch20"
    ELSE "Epoch2_05"

\* C3. Epoch boundary exactness: with the test's table, get_stacks_epoch
\* through either handle answers Epoch10 for heights 0..7, Epoch20 for 8..11
\* and Epoch2_05 from 12 on, up to the largest u32.
C3_EpochBoundaries ==
    \A q \in {conn_res, tx_res} :
        q # NoQuery =>
            /\ IsSome(q.epoch)
            /\ q.epoch[2].epoch_id = ExpectedEpochId(q.height)
            /\ q.epoch[2] \in {epochs[i] : i \in 1..Len(epochs)}

\* Heights 7 and 8 were asked for and got different epochs.
C3_Witness ==
    /\ conn_res.height = Wide(7) /\ conn_res.epoch[2].epoch_id = "Epoch10"
    /\ tx_res.height = Wide(8) /\ tx_res.epoch[2].epoch_id = "Epoch20"

Projections ==
    {"get_public_function_type", "get_read_only_function_type", "get_defined_trait",
     "get_implemented_traits", "get_map_type"}

\* The analysis that was inserted for an identifier with a visible entry.
Inserted(id) == CHOOSE A \in Analyses : serialize(A) = VisibleNow[id]

\* C5. Projection errors: a projection of an identifier with no visible entry
\* fails with NoSuchContract; get_map_type of a registered identifier returns
\* the (key type, value type) pair the inserted analysis declares for the map,
\* and fails with NoSuchMap when it declares none.
C5_ProjectionErrors ==
    /\ (ret.op \in Projections /\ ret.args[1] \notin DOMAIN VisibleNow) =>
           ret.res = Err(NoSuchContract(ret.args[1]))
    /\ (ret.op = "get_map_type" /\ ret.args[1] \in DOMAIN VisibleNow) =>
           LET A == Inserted(ret.args[1])
               m == ret.args[2]
           IN IF m \in DOMAIN A.map_types
              THEN ret.res = Ok(A.map_types[m])
              ELSE ret.res = Err(NoSuchMap(m))

\* get_map_type of a registered identifier was asked for an undeclared map.
C5_Witness ==
    /\ ret.op = "get_map_type"
    /\ ret.args[1] \in DOMAIN VisibleNow
    /\ ret.res = Err(NoSuchMap(ret.args[2]))

\* C6. Result propagation of scoped execute: execute returns what its unit of
\* work returned; its own frame call after the unit of work is one roll_back
\* and no commit when that was an error, one commit and no roll_back when it
\* was a success.
C6_ResultPropagation ==
    (ret.op = "execute" /\ ret.res # Panic) =>
        /\ ret.res = ret.args[1]
        /\ store.log = IF IsErr(ret.args[1]) THEN <<"rollback">> ELSE <<"commit">>

\* The unit of work failed with the second error and execute returned it.
C6_Witness ==
    /\ ret.op = "execute"
    /\ ret.args[1] = Err("e2")
    /\ ret.res = Err("e2")
    /\ store.log = <<"rollback">>

\* A step that discards the top frame: roll_back, or execute whose unit of
\* work failed.
DiscardStep ==
    \/ ret'.op = "roll_back" /\ RollBack
    \/ ret'.op = "execute" /\ IsErr(ret'.args[1]) /\ ExecuteReturn(ret'.args[1])

\* C7. Discard is confined to the top frame: with two or more frames open, a
\* discard removes the top frame and its writes only; the lower frames and
\* the backing store are as they were, and has_contract and load_contract
\* answer as they did when the top frame was opened.
C7_DiscardTopOnly ==
    [][(Len(store.stack) >= 2 /\ DiscardStep) =>
        LET top == Top(store.stack)
        IN /\ store'.stack = Front(store.stack)
           /\ store'.durable = store.durable
           /\ Visible(store'.stack, store'.durable) = top.seen
           /\ \A id \in DOMAIN top.writes : ~has_contract(store', id)
           /\ \A id \in Ids \ DOMAIN top.writes :
                 /\ has_contract(store', id) <=> has_contract(store, id)
                 /\ \A miss \in Misses :
                        load_contract(store', id, miss) = load_contract(store, id, miss)]_vars

\* An inner unit of work failed after an insert, and the entry of the frame
\* beneath it is still there.
C7_Witness ==
    /\ ret.op = "execute" /\ ret.res # Panic
    /\ IsErr(ret.args[1])
    /\ ~ret.act.raw
    /\ ret.act.inserted # {}
    /\ Len(store.stack) >= 1
    /\ DOMAIN Top(store.stack).writes # {}
    /\ \A id \in DOMAIN Top(store.stack).writes : has_contract(store, id)
    /\ \A id \in ret.act.inserted : ~has_contract(store, id)

\* C8. Commit of an inner frame folds into its parent only: what an inner
\* execute that succeeded had inserted is absent once the outer execute has
\* failed, and the backing store changes only in the commit of the last open
\* frame.
C8_InnerCommitFolds ==
    /\ []((ret.op = "execute" /\ ret.res # Panic /\ IsErr(ret.args[1]) /\ ~ret.act.raw) =>
             \A id \in ret.act.folded : ~has_contract(store, id))
    /\ [][store'.durable # store.durable =>
             /\ Len(store.stack) = 1
             /\ store'.stack = <<>>
             /\ store'.log = <<"commit">>]_vars

\* An outer unit of work failed after an inner execute had succeeded with
\* an insert.
C8_Witness ==
    /\ ret.op = "execute" /\ ret.res # Panic
    /\ IsErr(ret.args[1])
    /\ ~ret.act.raw
    /\ ret.act.folded # {}
    /\ \A id \in ret.act.folded : ~has_contract(store, id)

\* C9. commit and roll_back (and execute's own) with no frame open panic:
\* the handler hands nothing back, the backing store is as it was, and no
\* handler runs after it.
C9_NoFrameFault ==
    [][/\ ~store.fault
       /\ (Len(store.stack) = 0 /\ ret'.op \in {"commit", "roll_back", "execute"}) =>
             /\ store'.fault
             /\ ret'.res = Panic
             /\ store'.durable = store.durable
             /\ store'.stack = store.stack]_vars

\* commit panicked over a backing store that holds an entry.
C9_Witness ==
    /\ store.fault
    /\ ret.op = "commit"
    /\ ret.res = Panic
    /\ DOMAIN store.durable # {}

\* Maps from some of the names to the given values.
PartialMaps(values) == UNION {[D -> values] : D \in SUBSET Names}

\* Analyses over two function types, a trait, two trait identifiers and two
\* map types.
AnalysisSpace ==
    {Analysis(pub, ro, traits, impl, maps) :
        pub \in PartialMaps({"fn(int)->bool", "fn()->uint"}),
        ro \in PartialMaps({"fn(int)->bool", "fn()->uint"}),
        traits \in PartialMaps({[j \in {"f"} |-> "sig(uint)->uint"]}),
        impl \in SUBSET {"c1.m", "c2.f"},
        maps \in PartialMaps({<<"int", "bool">>, <<"uint", "uint">>})}

RoundTrip == \A A \in AnalysisSpace \cup Analyses : deserialize(serialize(A)) = A

\* C10. Store/load round-trip: once insert_contract(id, A) has succeeded,
\* load_contract(id) returns Some of an analysis with A's public and
\* read-only function types, defined traits, implemented traits and map
\* types; deserialize undoes serialize.
C10_RoundTrip ==
    /\ RoundTrip
    /\ (ret.op = "insert_contract" /\ IsOk(ret.res)) =>
           \A miss \in Misses :
               LET loaded == load_contract(store, ret.args[1], miss)
                   A == ret.args[2]
               IN /\ IsSome(loaded)
                  /\ loaded[2].public_function_types = A.public_function_types
                  /\ loaded[2].read_only_function_types = A.read_only_function_types
                  /\ loaded[2].defined_traits = A.defined_traits
                  /\ loaded[2].implemented_traits = A.implemented_traits
                  /\ loaded[2].map_types = A.map_types

\* An analysis with a defined trait and implemented traits was inserted.
C10_Witness ==
    /\ ret.op = "insert_contract" /\ IsOk(ret.res)
    /\ DOMAIN ret.args[2].defined_traits # {}
    /\ ret.args[2].implemented_traits # {}
    /\ load_contract(store, ret.args[1], Ok(None)) = Some(ret.args[2])

\* C11. load_contract masks only the not-found case: for an identifier with
\* no entry it returns None when the backing store answers Ok(None) or its
\* not-found error, and an error when the backing store's read failed in
\* any other way.
C11_MasksOnlyNotFound ==
    [][ret'.op = "load_contract" =>
        LET id == ret'.args[1]
        IN \A miss \in MissesFor(store, id) :
              (/\ LoadContract(id)
               /\ ret'.res = load_contract(store, id, miss)
               /\ ~has_metadata_entry(store, id)) =>
                  IF miss = ReadFailure THEN IsErr(ret'.res)
                  ELSE ret'.res = None]_vars

\* The entries the other handle's reads see.
ReaderView(st) == Visible(Reader(st).stack, Reader(st).durable)

\* The identifiers written in the open frames.
Uncommitted == UNION {DOMAIN store.stack[i].writes : i \in 1..Len(store.stack)}

\* C12. Isolation of uncommitted frames between handles: while the writer
\* has frames open, has_contract and load_contract through another handle on
\* the same backing store answer from the entries that were there when the
\* writer's outermost frame was opened; what they answer changes only in the
\* commit of the writer's last open frame (commit, or execute whose unit of
\* work succeeded), which makes the writer's visible entries theirs, and
\* never in a discard.
C12_Isolation ==
    /\ []((Len(store.stack) > 0 /\ ret.op = "reader.has_contract") =>
             (ret.res <=> ret.args[1] \in DOMAIN store.stack[1].seen))
    /\ []((Len(store.stack) > 0 /\ ret.op = "reader.load_contract") =>
             LET id == ret.args[1]
                 before == store.stack[1].seen
             IN ret.res = IF id \in DOMAIN before
                          THEN Some(deserialize(before[id])) ELSE None)
    /\ [][(store' # store /\ ReaderView(store') # ReaderView(store)) =>
             /\ ret'.op \in {"commit", "execute"}
             /\ ret'.op = "execute" => IsOk(ret'.args[1])
             /\ Len(store.stack) = 1
             /\ store'.stack = <<>>
             /\ ReaderView(store') = VisibleNow]_vars

\* The other handle was asked for an identifier the writer has inserted in
\* a frame that is still open, and did not find it.
C12_Witness ==
    /\ ret.op = "reader.has_contract"
    /\ ret.args[1] \in Uncommitted
    /\ has_contract(store, ret.args[1])
    /\ ret.res = FALSE

\* The table is sorted, contiguous and non-overlapping, starts at height 0
\* and ends at the maximum sentinel.
ValidTable(table) ==
    /\ Len(table) > 0
    /\ table[1].start_height = Wide(0)
    /\ table[Len(table)].end_height = STACKS_EPOCH_MAX
    /\ \A i \in 1..Len(table) : WideLt(table[i].start_height, table[i].end_height)
    /\ \A i \in 1..(Len(table) - 1) : table[i].end_height = table[i + 1].start_height

\* The records of the table whose interval holds the height.
Covering(table, height) ==
    {i \in 1..Len(table) :
        WideLe(table[i].start_height, height) /\ WideLt(height, table[i].end_height)}

\* C13. Epoch resolution is total and unique: with any valid table and any
\* u32 height H asked for, get_stacks_epoch through either handle returns
\* Some(E), never None, where E is the one record of the table with
\* E.start_height <= H < E.end_height.
C13_TotalUnique ==
    \A q \in {conn_res, tx_res} :
        (q # NoQuery /\ ValidTable(epochs)) =>
            /\ IsSome(q.epoch)
            /\ Cardinality(Covering(epochs, q.height)) = 1
            /\ \A i \in Covering(epochs, q.height) : q.epoch[2] = epochs[i]

\* A table other than the test's, switching at 1 and at the largest u32,
\* was asked for the two switching heights.
C13_Witness ==
    /\ ValidTable(epochs)
    /\ epochs # TestEpochs
    /\ Len(epochs) = 3
    /\ epochs[3].start_height = U32_MAX
    /\ conn_res.height = U32_MAX /\ conn_res.epoch = Some(epochs[3])
    /\ tx_res.height = Wide(1) /\ tx_res.epoch = Some(epochs[2])

Beneath(stack) == Front(stack)

\* C15. Frame-stack balance: execute's own begin pushes exactly one frame
\* and, once the unit of work has returned with a frame open, its own commit
\* or roll_back pops exactly one and execute returns, so that execute returns
\* with as many frames open as when it was called whenever the unit of work
\* left as many as it found, on success and on failure and at every nesting
\* depth (checked against the depth at the call for the units of work that
\* made no frame call of their own). begin pushes exactly one frame, empty,
\* on top of the others; roll_back pops exactly the top frame; commit pops
\* exactly the top frame and leaves those beneath its parent as they were.
C15_FrameBalance ==
    /\ [][(ret'.op = "execute" /\ Len(store.stack) > 0) =>
             /\ ret'.res # Panic
             /\ Len(store'.stack) = Len(store.stack) - 1
             /\ Len(calls') = Len(calls) - 1
             /\ ~Top(calls).raw => Len(store'.stack) = Top(calls).depth]_vars
    /\ [][ret'.op \in {"begin", "execute.begin"} =>
             /\ Len(store'.stack) = Len(store.stack) + 1
             /\ Beneath(store'.stack) = store.stack
             /\ Top(store'.stack).writes = NoEntries]_vars
    /\ [][(ret'.op = "roll_back" /\ ret'.res # Panic) =>
             store'.stack = Beneath(store.stack)]_vars
    /\ [][(ret'.op \in {"commit", "execute"} /\ ret'.res # Panic) =>
             /\ Len(store'.stack) = Len(store.stack) - 1
             /\ (ret'.op = "execute" /\ IsErr(ret'.args[1])) =>
                    store'.stack = Beneath(store.stack)
             /\ \A i \in 1..(Len(store.stack) - 2) : store'.stack[i] = store.stack[i]]_vars

\* An execute nested in another returned a failure with one frame left
\* open, the one that was open when it was called.
C15_Witness ==
    /\ ret.op = "execute" /\ ret.res # Panic
    /\ IsErr(ret.args[1])
    /\ ~ret.act.raw
    /\ ret.act.depth = 1
    /\ Len(store.stack) = 1
    /\ Len(calls) = 1

\* C16. has_contract and load_contract agree: in every reachable state and
\* for every identifier, has_contract is true exactly when load_contract
\* returns Some, whatever the backing store answers for a missing entry; and
\* what either handler has just returned agrees with the other.
C16_HasLoadAgree ==
    /\ \A id \in Ids : \A miss \in MissesFor(store, id) :
           has_contract(store, id) <=> IsSome(load_contract(store, id, miss))
    /\ ret.op = "has_contract" =>
           \A miss \in MissesFor(store, ret.args[1]) :
               ret.res <=> IsSome(load_contract(store, ret.args[1], miss))
    /\ ret.op = "load_contract" =>
           (IsSome(ret.res) <=> has_contract(store, ret.args[1]))

\* load_contract returned the analysis of an identifier inserted in the
\* upper of two open frames, and another identifier has no entry.
C16_Witness ==
    /\ ret.op = "load_contract"
    /\ IsSome(ret.res)
    /\ Len(store.stack) = 2
    /\ ret.args[1] \in DOMAIN Top(store.stack).writes
    /\ \E id \in Ids : ~has_contract(store, id)

\* The open frames beneath the top one that hold a write of id.
Enclosing(st, id) ==
    {i \in 1..(Len(st.stack) - 1) : id \in DOMAIN st.stack[i].writes}

\* C17. The write-once check sees the uncommitted writes of enclosing
\* frames: insert_contract(id, B) in a frame nested above an open frame that
\* holds a write of id fails with ContractAlreadyExists and changes nothing,
\* and load_contract(id) in the nested frame returns the analysis A that was
\* inserted there.
C17_SeesEnclosing ==
    /\ [][(ret'.op = "insert_contract" /\ Enclosing(store, ret'.args[1]) # {}) =>
             /\ ret'.res = Err(ContractAlreadyExists(ret'.args[1]))
             /\ store' = store]_vars
    /\ []((ret.op = "load_contract" /\ Enclosing(store, ret.args[1]) # {}) =>
             \A i \in Enclosing(store, ret.args[1]) :
                 \E A \in Analyses :
                     /\ serialize(A) = store.stack[i].writes[ret.args[1]]
                     /\ ret.res = Some(A))

\* insert_contract of another analysis was refused in the upper of two
\* frames, for an identifier written in the lower.
C17_Witness ==
    /\ ret.op = "insert_contract"
    /\ ret.res = Err(ContractAlreadyExists(ret.args[1]))
    /\ Len(store.stack) = 2
    /\ ret.args[1] \in DOMAIN store.stack[1].writes
    /\ ret.args[1] \notin DOMAIN store.stack[2].writes
    /\ serialize(ret.args[2]) # store.stack[1].writes[ret.args[1]]

\* C18. Write-once is relative to the visible state, not to history:
\* insert_contract(id, B) of an identifier with no visible entry succeeds,
\* and load_contract(id) then returns B; so it does right after a roll_back
\* or a failed execute discarded a frame in which insert_contract(id, A) had
\* succeeded, when the entry of id is gone.
C18_NotHistory ==
    /\ [][(ret'.op = "insert_contract" /\ ~has_contract(store, ret'.args[1])) =>
             /\ ret'.res = Ok(<<>>)
             /\ \A miss \in Misses :
                    load_contract(store', ret'.args[1], miss) = Some(ret'.args[2])]_vars
    /\ [](ret.op \in {"roll_back", "execute"} =>
             \A id \in DOMAIN ret.undone : ~has_contract(store, id))
    /\ [][(ret'.op = "insert_contract" /\ ret.op \in {"roll_back", "execute"}
            /\ ret'.args[1] \in DOMAIN ret.undone) =>
             /\ ret'.res = Ok(<<>>)
             /\ \A miss \in Misses :
                    load_contract(store', ret'.args[1], miss) = Some(ret'.args[2])]_vars

\* B was inserted for an identifier whose analysis A, another one, the
\* handler before had discarded, and B is what load_contract returns.
C18_Witness ==
    /\ ret.op = "insert_contract"
    /\ ret.res = Ok(<<>>)
    /\ ret.args[1] \in DOMAIN ret.undone
    /\ ret.undone[ret.args[1]] # serialize(ret.args[2])
    /\ load_contract(store, ret.args[1], Ok(None)) = Some(ret.args[2])

\* The handlers that read.
ReadOps == {"has_contract", "load_contract"} \cup Projections

\* C19. Reads have no effect on the store: a step of has_contract,
\* load_contract or a projection, whatever it returns, leaves the frames and
\* their writes, the frame depth, the backing store and the visible entries
\* as they were.
C19_ReadsNoEffect ==
    [][ret'.op \in ReadOps =>
        /\ Len(store'.stack) = Len(store.stack)
        /\ store'.stack = store.stack
        /\ store'.durable = store.durable
        /\ Visible(store'.stack, store'.durable) = VisibleNow]_vars

\* A projection failed with two frames open over a backing store that
\* holds an entry.
C19_Witness ==
    /\ ret.op = "get_defined_trait"
    /\ IsErr(ret.res)
    /\ Len(store.stack) = 2
    /\ DOMAIN store.durable # {}

\* C20. Undeclared function and trait names are not errors: for an
\* identifier with an entry, get_public_function_type,
\* get_read_only_function_type and get_defined_trait return Ok(Some(t)) with
\* the type the inserted analysis declares for the name and Ok(None) when it
\* declares none; get_map_type alone fails for an undeclared name, with
\* NoSuchMap.
C20_UndeclaredNames ==
    (ret.op \in Projections /\ ret.op # "get_implemented_traits"
     /\ ret.args[1] \in DOMAIN VisibleNow) =>
        LET A == Inserted(ret.args[1])
            name == ret.args[2]
            declared == IF ret.op = "get_public_function_type"
                        THEN A.public_function_types
                        ELSE IF ret.op = "get_read_only_function_type"
                        THEN A.read_only_function_types
                        ELSE IF ret.op = "get_defined_trait" THEN A.defined_traits
                        ELSE A.map_types
        IN IF ret.op = "get_map_type"
           THEN name \notin DOMAIN declared => ret.res = Err(NoSuchMap(name))
           ELSE ret.res = IF name \in DOMAIN declared
                          THEN Ok(Some(declared[name])) ELSE Ok(None)

\* get_defined_trait of a registered identifier was asked for a trait its
\* analysis does not define and returned Ok(None).
C20_Witness ==
    /\ ret.op = "get_defined_trait"
    /\ ret.args[1] \in DOMAIN VisibleNow
    /\ ret.args[2] \notin DOMAIN Inserted(ret.args[1]).defined_traits
    /\ DOMAIN Inserted(ret.args[1]).defined_traits # {}
    /\ ret.res = Ok(None)

====
